---- MODULE Spec2Model ----
(***************************************************************************)
(* waitforit: primitive conditions (Wait, src/src/wait.rs) and the AND/OR  *)
(* tree over them (Waits, src/src/waits.rs).                               *)
(*                                                                         *)
(* The environment a condition observes is the watched file (absent, or    *)
(* its metadata: modification time and length), the clock, whether a TCP   *)
(* connection to the host succeeds and the status an HTTP GET returns.     *)
(* Instants, system times and durations are counted in ticks.              *)
(***************************************************************************)
EXTENDS Integers, Sequences, FiniteSets, TLC

VARIABLES
    w,            \* the Wait under evaluation (specification Spec)
    tree,         \* the Waits tree under evaluation (specification SpecTree)
    file,         \* the watched path: NoFile, or its metadata
    now,          \* the clock read by Instant::now() / SystemTime::now()
    connectable,  \* whether TcpStream::connect(host) succeeds
    http_status,  \* the status an HTTP GET to the url returns
    counter,      \* the counter the Custom probe "b" increments
    seen,         \* what the previous evaluation of w read (Update: mtime, FileSize: length),
                  \* None if it read nothing or w was negated since
    call,         \* the latest step: the operation, its receiver before the step, what it returned
    poll,         \* the poll loop of wait(interval): where it is, its interval, start and sleep
    text,         \* the &str given to parse_duration / validate_tcp
    read          \* what the latest evaluation of w that could read the file read,
                  \* None if none could since w was constructed or negated

vars == <<w, tree, file, now, connectable, http_status, counter, seen, call, poll, text, read>>

\* ---------------------------------------------------------------- bounds
MaxTime == 2
MaxLen == 1
MaxDuration == 2
MaxCount == 2
MaxInterval == 2
MaxEval == 1
MaxGroups == 2

\* ---------------------------------------------------------------- values
\* Option<T>
None == << >>
Some(x) == <<x>>

Times == 0..MaxTime
Lens == 0..MaxLen
Durations == 0..MaxDuration

\* The path every file condition of the model watches, and the host.
Path == "foo.txt"
Host == "localhost:80"
Url == "http://localhost/"

\* The statuses the server answers with; 200 is the one waited for.
Ok200 == 200
NotFound404 == 404
Statuses == {Ok200, NotFound404}

\* std::fs::Metadata of the path; modified() may fail on a file that can be stat'ed.
NoFile == [exists |-> FALSE]
Metadata == [exists : {TRUE}, modified : {None} \cup {Some(t) : t \in Times}, len : Lens]
FileStates == {NoFile} \cup Metadata

\* Custom probes (fn() -> bool): "a" returns true, "b" increments the counter
\* and returns true, "c" returns false.
Probes == {"a", "b", "c"}
ProbeRet(f) == f # "c"
ProbeInc(f) == IF f = "b" THEN 1 ELSE 0

\* ---------------------------------------------------------- constructors
new_elapsed(end_instant) == [kind |-> "Elapsed", end_instant |-> end_instant, not |-> FALSE]

new_elapsed_from_duration(t, duration) ==
    [kind |-> "Elapsed", end_instant |-> t + duration, not |-> FALSE]

new_http_get(url, status) == [kind |-> "HttpGet", not |-> FALSE, url |-> url, status |-> status]

new_tcp_connect(host) == [kind |-> "TcpHost", not |-> FALSE, host |-> host]

new_file_exists(path) == [kind |-> "Exists", not |-> FALSE, path |-> path]

new_file_update(path) ==
    [kind |-> "Update", not |-> FALSE, path |-> path, last_update |-> None]

new_file_update_since(path, trigger_duration) ==
    [kind |-> "UpdateSince", not |-> FALSE, path |-> path,
     trigger_duration |-> trigger_duration]

new_file_size(path) ==
    [kind |-> "FileSize", not |-> FALSE, path |-> path, size_bytes |-> None]

new_custom(f) == [kind |-> "Custom", f |-> f, not |-> FALSE]

\* Every Wait a caller can construct at instant t.
NewWaits(t) ==
    {new_elapsed_from_duration(t, d) : d \in Durations}
        \cup {new_http_get(Url, Ok200), new_tcp_connect(Host), new_file_exists(Path), new_file_update(Path),
              new_file_size(Path)}
        \cup {new_file_update_since(Path, d) : d \in Durations}
        \cup {new_custom(f) : f \in Probes}

\* ------------------------------------------------------------ impl Not
NotAlwaysTrue(self) == [self EXCEPT !.not = TRUE]

Not(self) == [self EXCEPT !.not = ~self.not]

\* ------------------------------------------------------ filesystem probes
get_modified_time(meta) == IF meta.exists THEN meta.modified ELSE None

get_file_size(meta) == IF meta.exists THEN Some(meta.len) ELSE None

PathExists(meta) == meta.exists

\* SystemTime::duration_since: Err when `earlier` is later than self.
duration_since(t, earlier) == IF earlier <= t THEN Some(t - earlier) ELSE None

\* ------------------------------------------------- Wait::condition_met
\* Each arm gives what the call returns, the condition after the call (its
\* Cell may have been set) and how much the probe's counter advanced.
Returned(ret, self, inc) == [ret |-> ret, self |-> self, inc |-> inc]

ElapsedMetInclusive(self, t) ==
    Returned(IF self.not THEN self.end_instant > t ELSE self.end_instant <= t, self, 0)

ElapsedMetStrictBoth(self, t) ==
    Returned(IF self.not THEN self.end_instant > t ELSE self.end_instant < t, self, 0)

\* The comparison turned around.
ElapsedMetReversed(self, t) ==
    Returned(IF self.not THEN self.end_instant <= t ELSE self.end_instant > t, self, 0)

ElapsedMet(self, t) ==
    Returned(IF self.not THEN self.end_instant >= t ELSE self.end_instant < t, self, 0)

ExistsMet(self, meta) ==
    Returned(IF self.not THEN ~PathExists(meta) ELSE PathExists(meta), self, 0)

HttpGetMet(self, status) ==
    Returned(IF self.not THEN self.status # status ELSE self.status = status, self, 0)

TcpHostMet(self, ok) == Returned(IF self.not THEN ~ok ELSE ok, self, 0)

\* The first observation treated as a plain negatable result.
UpdateMetFirstFires(self, meta) ==
    LET current_modified == get_modified_time(meta) IN
    IF current_modified = None THEN Returned(TRUE, self, 0)
    ELSE IF self.last_update # None
         THEN LET is_updated == self.last_update # current_modified IN
              IF self.not
              THEN IF is_updated
                   THEN Returned(FALSE, [self EXCEPT !.last_update = current_modified], 0)
                   ELSE Returned(TRUE, self, 0)
              ELSE Returned(is_updated, self, 0)
         ELSE Returned(self.not, [self EXCEPT !.last_update = current_modified], 0)

\* The un-negated fire path advancing the baseline.
UpdateMetEdgeTriggered(self, meta) ==
    LET current_modified == get_modified_time(meta) IN
    IF current_modified = None THEN Returned(TRUE, self, 0)
    ELSE IF self.last_update # None
         THEN LET is_updated == self.last_update # current_modified IN
              IF self.not
              THEN IF is_updated
                   THEN Returned(FALSE, [self EXCEPT !.last_update = current_modified], 0)
                   ELSE Returned(TRUE, self, 0)
              ELSE Returned(is_updated, [self EXCEPT !.last_update = current_modified], 0)
         ELSE Returned(FALSE, [self EXCEPT !.last_update = current_modified], 0)

\* The negated "still changing" path forgetting to advance the baseline.
UpdateMetStaleBaseline(self, meta) ==
    LET current_modified == get_modified_time(meta) IN
    IF current_modified = None THEN Returned(TRUE, self, 0)
    ELSE IF self.last_update # None
         THEN LET is_updated == self.last_update # current_modified IN
              IF self.not
              THEN Returned(~is_updated, self, 0)
              ELSE Returned(is_updated, self, 0)
         ELSE Returned(FALSE, [self EXCEPT !.last_update = current_modified], 0)

UpdateMet(self, meta) ==
    LET current_modified == get_modified_time(meta) IN
    IF current_modified = None THEN Returned(TRUE, self, 0)
    ELSE IF self.last_update # None
         THEN LET is_updated == self.last_update # current_modified IN
              IF self.not
              THEN IF is_updated
                   THEN Returned(FALSE, [self EXCEPT !.last_update = current_modified], 0)
                   ELSE Returned(TRUE, self, 0)
              ELSE Returned(is_updated, self, 0)
         ELSE Returned(FALSE, [self EXCEPT !.last_update = current_modified], 0)

\* The unreadable cases passed through the negation.
UpdateSinceMetUnreadableFlip(self, meta, t) ==
    LET last_updated == get_modified_time(meta) IN
    IF last_updated = None THEN Returned(~self.not, self, 0)
    ELSE LET since_last_update == duration_since(t, last_updated[1]) IN
         IF since_last_update = None THEN Returned(~self.not, self, 0)
         ELSE LET is_recently_updated == since_last_update[1] < self.trigger_duration IN
              Returned(is_recently_updated # self.not, self, 0)

\* An age equal to the trigger duration still counted as recent.
UpdateSinceMetInclusive(self, meta, t) ==
    LET last_updated == get_modified_time(meta) IN
    IF last_updated = None THEN Returned(TRUE, self, 0)
    ELSE LET since_last_update == duration_since(t, last_updated[1]) IN
         IF since_last_update = None THEN Returned(TRUE, self, 0)
         ELSE LET is_recently_updated == since_last_update[1] <= self.trigger_duration IN
              Returned(is_recently_updated # self.not, self, 0)

UpdateSinceMet(self, meta, t) ==
    LET last_updated == get_modified_time(meta) IN
    IF last_updated = None THEN Returned(TRUE, self, 0)
    ELSE LET since_last_update == duration_since(t, last_updated[1]) IN
         IF since_last_update = None THEN Returned(TRUE, self, 0)
         ELSE LET is_recently_updated == since_last_update[1] < self.trigger_duration IN
              Returned(is_recently_updated # self.not, self, 0)

\* The negation applied as a plain flip of "changed", first observation included.
FileSizeMetPlainFlip(self, meta) ==
    LET prev == self.size_bytes
        curr == get_file_size(meta)
    IN  IF curr = None THEN Returned(TRUE, self, 0)
        ELSE IF (prev # None /\ prev # curr) # self.not THEN Returned(TRUE, self, 0)
        ELSE Returned(FALSE, [self EXCEPT !.size_bytes = curr], 0)

\* The size saved on every readable evaluation.
FileSizeMetOverwrites(self, meta) ==
    LET prev == self.size_bytes
        curr == get_file_size(meta)
    IN  IF curr = None THEN Returned(TRUE, self, 0)
        ELSE IF prev # None /\ ~self.not /\ prev # curr
             THEN Returned(TRUE, [self EXCEPT !.size_bytes = curr], 0)
        ELSE IF prev # None /\ self.not /\ prev = curr THEN Returned(TRUE, self, 0)
        ELSE Returned(FALSE, [self EXCEPT !.size_bytes = curr], 0)

FileSizeMet(self, meta) ==
    LET prev == self.size_bytes
        curr == get_file_size(meta)
    IN  IF curr = None THEN Returned(TRUE, self, 0)
        ELSE IF prev # None /\ ~self.not /\ prev # curr THEN Returned(TRUE, self, 0)
        ELSE IF prev # None /\ self.not /\ prev = curr THEN Returned(TRUE, self, 0)
        ELSE Returned(FALSE, [self EXCEPT !.size_bytes = curr], 0)

CustomMet(self) ==
    Returned(IF self.not THEN ~ProbeRet(self.f) ELSE ProbeRet(self.f), self, ProbeInc(self.f))

WaitConditionMet(self, meta, t, ok, status) ==
    CASE self.kind = "Elapsed" -> ElapsedMet(self, t)
      [] self.kind = "Exists" -> ExistsMet(self, meta)
      [] self.kind = "HttpGet" -> HttpGetMet(self, status)
      [] self.kind = "TcpHost" -> TcpHostMet(self, ok)
      [] self.kind = "Update" -> UpdateMet(self, meta)
      [] self.kind = "UpdateSince" -> UpdateSinceMet(self, meta, t)
      [] self.kind = "FileSize" -> FileSizeMet(self, meta)
      [] self.kind = "Custom" -> CustomMet(self)

\* ------------------------------------------------------------- Waits
\* impl From<Wait> for Waits
From(u) == [tag |-> "Single", u |-> u]

\* impl BitOr / BitAnd for Waits (the Wait operands converted with From)
BitOr(left, right) == [tag |-> "Or", cc |-> <<left, right>>]

BitAnd(left, right) == [tag |-> "And", cc |-> <<left, right>>]

\* Waits::condition_met on the node at position `at` (the path from the root,
\* 0 = cc.0, 1 = cc.1): what it returns, the node afterwards, how much the
\* probes' counter advanced and the leaves evaluated, in order.
Passed(ret, self, inc, order) == [ret |-> ret, self |-> self, inc |-> inc, order |-> order]

\* Both operands evaluated before they are combined.
RECURSIVE WaitsConditionMetEager(_, _, _, _, _, _)
WaitsConditionMetEager(self, meta, t, ok, status, at) ==
    IF self.tag = "Single"
    THEN LET r == WaitConditionMet(self.u, meta, t, ok, status) IN
         Passed(r.ret, [self EXCEPT !.u = r.self], r.inc, <<at>>)
    ELSE LET l == WaitsConditionMetEager(self.cc[1], meta, t, ok, status, at \o <<0>>)
             r == WaitsConditionMetEager(self.cc[2], meta, t, ok, status, at \o <<1>>)
         IN  Passed(IF self.tag = "Or" THEN l.ret \/ r.ret ELSE l.ret /\ r.ret,
                    [self EXCEPT !.cc = <<l.self, r.self>>],
                    l.inc + r.inc, l.order \o r.order)

\* `&&` written for `||` and the reverse.
RECURSIVE WaitsConditionMetSwapped(_, _, _, _, _, _)
WaitsConditionMetSwapped(self, meta, t, ok, status, at) ==
    IF self.tag = "Single"
    THEN LET r == WaitConditionMet(self.u, meta, t, ok, status) IN
         Passed(r.ret, [self EXCEPT !.u = r.self], r.inc, <<at>>)
    ELSE LET l == WaitsConditionMetSwapped(self.cc[1], meta, t, ok, status, at \o <<0>>)
             r == WaitsConditionMetSwapped(self.cc[2], meta, t, ok, status, at \o <<1>>)
             skip == IF self.tag = "And" THEN l.ret ELSE ~l.ret
         IN  IF skip
             THEN Passed(l.ret, [self EXCEPT !.cc[1] = l.self], l.inc, l.order)
             ELSE Passed(r.ret, [self EXCEPT !.cc = <<l.self, r.self>>],
                         l.inc + r.inc, l.order \o r.order)

RECURSIVE WaitsConditionMet(_, _, _, _, _, _)
WaitsConditionMet(self, meta, t, ok, status, at) ==
    IF self.tag = "Single"
    THEN LET r == WaitConditionMet(self.u, meta, t, ok, status) IN
         Passed(r.ret, [self EXCEPT !.u = r.self], r.inc, <<at>>)
    ELSE LET l == WaitsConditionMet(self.cc[1], meta, t, ok, status, at \o <<0>>)
             r == WaitsConditionMet(self.cc[2], meta, t, ok, status, at \o <<1>>)
             skip == IF self.tag = "Or" THEN l.ret ELSE ~l.ret
         IN  IF skip
             THEN Passed(l.ret, [self EXCEPT !.cc[1] = l.self], l.inc, l.order)
             ELSE Passed(r.ret, [self EXCEPT !.cc = <<l.self, r.self>>],
                         l.inc + r.inc, l.order \o r.order)

\* The observable a successful Update / FileSize evaluation reads.
Observed(self, meta) ==
    CASE self.kind = "Update" -> get_modified_time(meta)
      [] self.kind = "FileSize" -> get_file_size(meta)
      [] OTHER -> None

\* -------------------------------------------------------------- states
NoWait == [kind |-> "None"]
NoTree == [tag |-> "None"]
NoCall == [op |-> "new"]
EnvCall == [op |-> "env"]
NoPoll == [pc |-> "none"]
NoText == << >>

\* ------------------------------------------------- environment actions
\* The clock advances.
Tick ==
    /\ now < MaxTime
    /\ now' = now + 1
    /\ call' = EnvCall
    /\ UNCHANGED <<w, tree, file, connectable, http_status, counter, seen, poll, text, read>>

\* Another process creates, deletes, writes or touches the file.
FsChange ==
    /\ \E meta \in FileStates : meta # file /\ file' = meta
    /\ call' = EnvCall
    /\ UNCHANGED <<w, tree, now, connectable, http_status, counter, seen, poll, text, read>>

\* The host starts or stops accepting connections.
NetChange ==
    /\ connectable' = ~connectable
    /\ call' = EnvCall
    /\ UNCHANGED <<w, tree, file, now, http_status, counter, seen, poll, text, read>>

\* The server starts answering with another status.
HttpChange ==
    /\ \E status \in Statuses : status # http_status /\ http_status' = status
    /\ call' = EnvCall
    /\ UNCHANGED <<w, tree, file, now, connectable, counter, seen, poll, text, read>>

\* ------------------------------------------------ Spec: a single Wait
Init ==
    /\ now = 0
    /\ w \in NewWaits(0)
    /\ tree = NoTree
    /\ file \in FileStates
    /\ connectable \in BOOLEAN
    /\ http_status \in Statuses
    /\ counter = 0
    /\ seen = None
    /\ read = None
    /\ call = NoCall
    /\ poll = NoPoll
    /\ text = NoText

\* w.condition_met()
ConditionMet ==
    LET r == WaitConditionMet(w, file, now, connectable, http_status)
        o == Observed(w, file)
    IN  /\ counter + r.inc <= MaxCount
        /\ w' = r.self
        /\ counter' = counter + r.inc
        /\ seen' = o
        /\ read' = IF o # None THEN o ELSE read
        /\ call' = [op |-> "condition_met", self |-> w, ret |-> r.ret, prior |-> seen,
                    read |-> read]
        /\ UNCHANGED <<tree, file, now, connectable, http_status, poll, text>>

\* w = !w
Negate ==
    /\ w' = Not(w)
    /\ seen' = None
    /\ read' = None
    /\ call' = [op |-> "not", self |-> w]
    /\ UNCHANGED <<tree, file, now, connectable, http_status, counter, poll, text>>

Next == ConditionMet \/ Negate \/ Tick \/ FsChange \/ NetChange \/ HttpChange

Spec == Init /\ [][Next]_vars

\* ------------------------------------------------ SpecTree: a Waits tree
\* The leaves the trees are built from: as constructed, or negated once.
TreeLeaves ==
    LET fresh == {new_custom(f) : f \in Probes}
                     \cup {new_file_exists(Path), new_file_update(Path), new_file_size(Path)}
    IN  fresh \cup {Not(u) : u \in fresh}

ProbeLeaves == {new_custom(f) : f \in Probes}

\* A single leaf, two leaves combined, or three probes combined either way.
NewTrees ==
    LET Pair(S, T) == {BitOr(x, y) : x \in S, y \in T} \cup {BitAnd(x, y) : x \in S, y \in T}
        one == {From(u) : u \in TreeLeaves}
        probe == {From(u) : u \in ProbeLeaves}
    IN  one \cup Pair(one, one) \cup Pair(Pair(probe, probe), probe)
            \cup Pair(probe, Pair(probe, probe))

InitTree ==
    /\ now = 0
    /\ w = NoWait
    /\ tree \in NewTrees
    /\ file \in FileStates
    /\ connectable \in BOOLEAN
    /\ http_status = Ok200
    /\ counter = 0
    /\ seen = None
    /\ read = None
    /\ call = NoCall
    /\ poll = NoPoll
    /\ text = NoText

\* tree.condition_met()
TreeConditionMet ==
    LET r == WaitsConditionMet(tree, file, now, connectable, http_status, << >>) IN
        /\ counter + r.inc <= MaxCount
        /\ tree' = r.self
        /\ counter' = counter + r.inc
        /\ call' = [op |-> "Waits::condition_met", self |-> tree, ret |-> r.ret,
                    order |-> r.order, counter |-> counter]
        /\ UNCHANGED <<w, file, now, connectable, http_status, seen, poll, text, read>>

NextTree == TreeConditionMet \/ Tick \/ FsChange \/ NetChange

SpecTree == InitTree /\ [][NextTree]_vars

\* ------------------------------------------- SpecWait: the poll loop
\* Poll intervals, and how long one evaluation may take.
Intervals == 0..MaxInterval
EvalTimes == 0..MaxEval

\* The clock is followed until every Elapsed target and one more interval
\* and evaluation have passed.
WaitHorizon == MaxDuration + MaxInterval + MaxEval

\* `if interval > loop_time { sleep(interval - loop_time) }`: the sleep asked
\* for, 0 when there is none.
SleepForWholeInterval(interval, loop_time) == interval

SleepFor(interval, loop_time) == IF interval > loop_time THEN interval - loop_time ELSE 0

\* The loop after an evaluation that started at `start`, took `took` and
\* returned `ret`; slept records whether the loop has slept so far.
AfterEvaluation(p, start, took, ret) ==
    IF ret
    THEN [p EXCEPT !.pc = "returned", !.start = start, !.ret = Some(TRUE)]
    ELSE LET loop_time == took
             sleep == SleepFor(p.interval, loop_time)
         IN  [pc |-> IF sleep > 0 THEN "sleeping" ELSE "loop", interval |-> p.interval,
              start |-> start, loop_time |-> loop_time, sleep |-> sleep, ret |-> Some(FALSE),
              slept |-> p.slept]

\* The conditions waited on alone or as the X / C of a tree.
WaitLeaves ==
    LET fresh == {new_custom("c"), new_file_exists(Path), new_file_update(Path),
                  new_file_size(Path), new_file_update_since(Path, MaxDuration)}
    IN  fresh \cup {Not(u) : u \in fresh}

ElapsedLeaves == {new_elapsed_from_duration(0, d) : d \in Durations}

\* X OR Elapsed(T), C AND Elapsed(T), Exists AND UpdateSince (as in
\* examples/multiples.rs, alone and OR-ed with an Elapsed).
WaitTrees ==
    LET xs == {From(u) : u \in WaitLeaves}
        es == {From(u) : u \in ElapsedLeaves}
        done == {BitAnd(From(new_file_exists(Path)), From(u)) :
                    u \in {new_file_update_since(Path, MaxDuration),
                           Not(new_file_update_since(Path, MaxDuration))}}
    IN  {BitOr(x, e) : x \in xs \cup done, e \in es}
            \cup {BitAnd(x, e) : x \in xs, e \in es}
            \cup done

InitWait ==
    /\ now = 0
    /\ \/ w \in WaitLeaves \cup ElapsedLeaves /\ tree = NoTree
       \/ w = NoWait /\ tree \in WaitTrees
    /\ file \in FileStates
    /\ connectable = FALSE
    /\ http_status = Ok200
    /\ counter = 0
    /\ seen = None
    /\ read = None
    /\ call = NoCall
    /\ \E interval \in Intervals :
           poll = [pc |-> "loop", interval |-> interval, start |-> 0, loop_time |-> 0,
                   sleep |-> 0, ret |-> None, slept |-> FALSE]
    /\ text = NoText

\* One iteration of Wait::wait up to the sleep: the evaluation takes `took`.
WaitPass ==
    /\ w # NoWait
    /\ poll.pc = "loop"
    /\ \E took \in EvalTimes :
           LET r == WaitConditionMet(w, file, now, connectable, http_status) IN
           /\ now + took <= WaitHorizon
           /\ w' = r.self
           /\ now' = now + took
           /\ poll' = AfterEvaluation(poll, now, took, r.ret)
           /\ call' = [op |-> "wait", self |-> w, ret |-> r.ret, took |-> took]
    /\ UNCHANGED <<tree, file, connectable, http_status, counter, seen, text, read>>

\* One iteration of Waits::wait up to the sleep.
WaitsPass ==
    /\ tree # NoTree
    /\ poll.pc = "loop"
    /\ \E took \in EvalTimes :
           LET r == WaitsConditionMet(tree, file, now, connectable, http_status, << >>) IN
           /\ now + took <= WaitHorizon
           /\ tree' = r.self
           /\ now' = now + took
           /\ poll' = AfterEvaluation(poll, now, took, r.ret)
           /\ call' = [op |-> "wait", self |-> tree, ret |-> r.ret, took |-> took,
                       order |-> r.order]
    /\ UNCHANGED <<w, file, connectable, http_status, counter, seen, text, read>>

\* std::thread::sleep(interval - loop_time), then the loop starts over.
Sleep ==
    /\ poll.pc = "sleeping"
    /\ now + poll.sleep <= WaitHorizon
    /\ now' = now + poll.sleep
    /\ poll' = [poll EXCEPT !.pc = "loop", !.slept = TRUE]
    /\ call' = [op |-> "sleep"]
    /\ UNCHANGED <<w, tree, file, connectable, http_status, counter, seen, text, read>>

NextWait == WaitPass \/ WaitsPass \/ Sleep \/ FsChange

SpecWait == InitWait /\ [][NextWait]_vars

\* ------------------------------------------------------- parse_duration
\* A &str is the sequence of its chars.
DigitChars == <<"0", "1", "2", "3", "4", "5", "6", "7", "8", "9">>

IsDigit(c) == \E i \in 1..10 : DigitChars[i] = c

to_digit(c) == (CHOOSE i \in 1..10 : DigitChars[i] = c) - 1

\* A u32 is kept as two 16-bit limbs <<high, low>>; an operation gives the
\* wrapped value and whether the true result did not fit.
Limb == 65536

U32(n) == <<n \div Limb, n % Limb>>

Arith(v, overflow) == [v |-> v, overflow |-> overflow]

\* x * k for a k below 2 * Limb whose low limb is below Limb / 2
u32_mul(x, k) ==
    LET p0 == x[2] * (k % Limb)
        p1 == x[1] * (k % Limb) + x[2] * (k \div Limb) + p0 \div Limb
    IN  Arith(<<p1 % Limb, p0 % Limb>>, p1 \div Limb + x[1] * (k \div Limb) > 0)

u32_add(x, y) ==
    LET p0 == x[2] + y[2]
        p1 == x[1] + y[1] + p0 \div Limb
    IN  Arith(<<p1 % Limb, p0 % Limb>>, p1 >= Limb)

\* What a call does: it returns ret, or panics (an arithmetic overflow in a
\* build with overflow checks).
Outcome(panicked, ret) == [panicked |-> panicked, ret |-> ret]

Panic == Outcome(TRUE, None)

\* The loop of parse_duration from the i-th char on. overflow_checks is the
\* build's setting: on, `+` and `*` panic on overflow; off, they wrap.
RECURSIVE ParseChars(_, _, _, _, _)
ParseChars(duration, i, total_delay, acc, overflow_checks) ==
    IF i > Len(duration)
    THEN LET t == u32_add(total_delay, acc) IN
         IF t.overflow /\ overflow_checks THEN Panic
         ELSE Outcome(FALSE, Some(Some(t.v)))
    ELSE LET c == duration[i]
             Unit(seconds) ==
                 LET a == u32_mul(acc, seconds)
                     t == u32_add(total_delay, a.v)
                 IN  IF (a.overflow \/ t.overflow) /\ overflow_checks THEN Panic
                     ELSE ParseChars(duration, i + 1, t.v, U32(0), overflow_checks)
         IN  CASE IsDigit(c) ->
                      LET a == u32_mul(acc, 10)
                          b == u32_add(a.v, U32(to_digit(c)))
                      IN  IF (a.overflow \/ b.overflow) /\ overflow_checks THEN Panic
                          ELSE ParseChars(duration, i + 1, total_delay, b.v, overflow_checks)
               [] c = "d" -> Unit(86400)
               [] c = "h" -> Unit(3600)
               [] c = "m" -> Unit(60)
               [] c = "s" ->
                      LET t == u32_add(total_delay, acc) IN
                      IF t.overflow /\ overflow_checks THEN Panic
                      ELSE ParseChars(duration, i + 1, t.v, U32(0), overflow_checks)
               [] OTHER -> Outcome(FALSE, Some(None))

\* parse_duration(duration): Some(None) is a returned None, Some(Some(secs))
\* a returned Duration of secs seconds, None no return.
parse_duration(duration, overflow_checks) ==
    ParseChars(duration, 1, U32(0), U32(0), overflow_checks)

\* --------------------------------------------------------- validate_tcp
\* The index of the last ':' of hostarg.
last_colon(hostarg) ==
    LET colons == {i \in 1..Len(hostarg) : hostarg[i] = ":"} IN
        IF colons = {} THEN None
        ELSE Some(CHOOSE i \in colons : \A j \in colons : j <= i)

\* port.parse::<u16>(): Some(value) for Ok, None for Err. A leading '+' is
\* dropped unless it is the whole string, then every char must be a digit
\* and the value, folded with checked_mul / checked_add, must stay a u16.
RECURSIVE FoldU16(_, _, _)
FoldU16(digits, i, result) ==
    IF i > Len(digits) THEN Some(result)
    ELSE IF ~IsDigit(digits[i]) THEN None
    ELSE IF result * 10 >= Limb THEN None
    ELSE IF result * 10 + to_digit(digits[i]) >= Limb THEN None
    ELSE FoldU16(digits, i + 1, result * 10 + to_digit(digits[i]))

\* The value wraps around instead of being refused.
parse_u16_wrapping(port) ==
    LET digits == IF port # << >> /\ port[1] = "+" THEN Tail(port) ELSE port IN
        IF digits # << >> /\ \A i \in 1..Len(digits) : IsDigit(digits[i])
        THEN Some(0)
        ELSE None

parse_u16(port) ==
    IF port = << >> THEN None
    ELSE IF Len(port) = 1 /\ port[1] \in {"+", "-"} THEN None
    ELSE FoldU16(IF port[1] = "+" THEN Tail(port) ELSE port, 1, 0)

validate_tcp(hostarg) ==
    LET at == last_colon(hostarg) IN
        IF at # None
        THEN parse_u16(SubSeq(hostarg, at[1] + 1, Len(hostarg))) # None
        ELSE FALSE

\* ------------------------------------------------------------- inputs
\* One digit group with its unit, a bare group, a bare unit, or a group with
\* a char that is neither.
Groups ==
    {<<"3">>,
     <<"1", "0">>,
     <<"3", "h">>,
     <<"1", "0", "m">>,
     <<"3", "d">>,
     <<"1", "0", "s">>,
     <<"s">>,
     <<"h">>,
     <<"4", "9", "7", "1", "0", "d">>,
     <<"4", "9", "7", "1", "1", "d">>,
     <<"4", "2", "9", "4", "9", "6", "7", "2", "9", "6">>,
     <<"4", "2", "9", "4", "9", "6", "7", "2", "9", "6", "s">>,
     <<"x">>,
     <<"3", "x">>}

\* The strings of at most n groups.
RECURSIVE DurationTexts(_)
DurationTexts(n) ==
    IF n = 0 THEN {<< >>}
    ELSE LET shorter == DurationTexts(n - 1) IN
         shorter \cup {t \o g : t \in shorter, g \in Groups}

HostNames ==
    {<<>>,
     <<"l", "o", "c", "a", "l", "h", "o", "s", "t">>,
     <<"1", "2", "7", ".", "0", ".", "0", ".", "1">>,
     <<"[", ":", ":", "1", "]">>}

Ports ==
    {<<>>,
     <<"8", "0">>,
     <<"8", "0", "0", "0">>,
     <<"6", "5", "5", "3", "4">>,
     <<"6", "5", "5", "3", "5">>,
     <<"6", "5", "5", "3", "6">>,
     <<"-", "1">>,
     <<"+", "8", "0">>,
     <<"+">>,
     <<"0", "0", "8", "0">>,
     <<"8", "x">>}

TcpTexts == HostNames \cup {h \o <<":">> \o p : h \in HostNames, p \in Ports}

Texts == DurationTexts(MaxGroups) \cup TcpTexts

InitParse ==
    /\ now = 0
    /\ w = NoWait
    /\ tree = NoTree
    /\ file = NoFile
    /\ connectable = FALSE
    /\ http_status = Ok200
    /\ counter = 0
    /\ seen = None
    /\ read = None
    /\ call = NoCall
    /\ poll = NoPoll
    /\ text \in Texts

\* parse_duration(text), in a build with or without overflow checks
ParseDuration ==
    \E overflow_checks \in BOOLEAN :
        LET r == parse_duration(text, overflow_checks) IN
            /\ call' = [op |-> "parse_duration", overflow_checks |-> overflow_checks,
                        panicked |-> r.panicked, ret |-> r.ret]
            /\ UNCHANGED <<w, tree, file, now, connectable, http_status, counter, seen, poll, text, read>>

\* validate_tcp(text)
ValidateTcp ==
    /\ call' = [op |-> "validate_tcp", ret |-> validate_tcp(text)]
    /\ UNCHANGED <<w, tree, file, now, connectable, http_status, counter, seen, poll, text, read>>

NextParse == ParseDuration \/ ValidateTcp

SpecParse == InitParse /\ [][NextParse]_vars

\* ------------------------------------------------------------- claims
\* The latest step was w.condition_met() on a condition of variant k; file,
\* now and connectable are what that call read.
Evaluated(k) == call.op = "condition_met" /\ call.self.kind = k

\* All fields of `after` but those in `except` are as in `before`.
SameBut(before, after, except) ==
    /\ DOMAIN after = DOMAIN before
    /\ \A fld \in DOMAIN before \ except : after[fld] = before[fld]

\* C2: Update, file readable: the first evaluation (memory absent) stores the
\* current modification time and returns false whatever `not` is; an
\* evaluation whose memory equals the current modification time returns
\* false when not=false and true when not=true.
C2_UpdateFirstAndSecond ==
    (Evaluated("Update") /\ get_modified_time(file) # None) =>
        /\ call.self.last_update = None =>
            /\ call.ret = FALSE
            /\ w.last_update = get_modified_time(file)
            /\ SameBut(call.self, w, {"last_update"})
        /\ call.self.last_update = get_modified_time(file) => call.ret = call.self.not

C2_Witness ==
    /\ Evaluated("Update")
    /\ call.self.not
    /\ call.self.last_update # None
    /\ call.self.last_update = get_modified_time(file)
    /\ call.prior = get_modified_time(file)
    /\ call.ret = TRUE

\* C3: un-negated Update with memory present: an evaluation never changes the
\* memory, and with the file readable it returns exactly (current
\* modification time # memory); so it keeps returning true while the current
\* modification time differs from the baseline.
C3_UpdateLevelTriggered ==
    (Evaluated("Update") /\ ~call.self.not /\ call.self.last_update # None) =>
        /\ w = call.self
        /\ get_modified_time(file) # None =>
               call.ret = (get_modified_time(file) # call.self.last_update)

\* Fired again although the file did not change since the previous evaluation.
C3_Witness ==
    /\ Evaluated("Update")
    /\ ~call.self.not
    /\ call.self.last_update # None
    /\ call.prior = get_modified_time(file)
    /\ get_modified_time(file) # None
    /\ call.ret = TRUE

\* C4: negated Update, memory present, file readable: a modification time
\* that differs from memory sets memory to it and returns false; one that
\* equals memory returns true and leaves memory unchanged.
C4_NegatedUpdate ==
    (Evaluated("Update") /\ call.self.not /\ call.self.last_update # None
        /\ get_modified_time(file) # None) =>
        IF get_modified_time(file) # call.self.last_update
        THEN /\ call.ret = FALSE
             /\ w.last_update = get_modified_time(file)
             /\ SameBut(call.self, w, {"last_update"})
        ELSE /\ call.ret = TRUE
             /\ w = call.self

C4_Witness ==
    /\ Evaluated("Update")
    /\ call.self.not
    /\ call.self.last_update # None
    /\ get_modified_time(file) # None
    /\ get_modified_time(file) # call.self.last_update
    /\ w.last_update = get_modified_time(file)
    /\ call.ret = FALSE

\* FileSize, file readable: what one evaluation returns and does to memory.
FileSizeOneEvaluation ==
    (Evaluated("FileSize") /\ get_file_size(file) # None) =>
        LET prev == call.self.size_bytes
            curr == get_file_size(file)
            met == prev # None /\ (IF call.self.not THEN prev = curr ELSE prev # curr)
        IN  /\ call.ret = met
            /\ met => w = call.self
            /\ ~met => w.size_bytes = curr /\ SameBut(call.self, w, {"size_bytes"})

\* The outcome C5 states for the later of two consecutive readable evaluations.
FileSizeFollowsChange ==
    call.ret = (IF call.self.not THEN get_file_size(file) = call.prior
                                 ELSE get_file_size(file) # call.prior)

\* C5 as stated: FileSizeOneEvaluation, and between any two consecutive
\* evaluations a size change makes the later one return true for not=false
\* and false for not=true, an unchanged size the reverse.
C5_AsStated ==
    /\ FileSizeOneEvaluation
    /\ (Evaluated("FileSize") /\ get_file_size(file) # None /\ call.prior # None) =>
           FileSizeFollowsChange

\* C5 (amended): FileSizeOneEvaluation, and the outcome follows the size
\* change between two consecutive evaluations when the earlier one left
\* memory equal to the length it read (the first evaluation after
\* construction and every evaluation that returned false do).
C5_FileSize ==
    /\ FileSizeOneEvaluation
    /\ (Evaluated("FileSize") /\ get_file_size(file) # None /\ call.prior # None
           /\ call.self.size_bytes = call.prior) =>
           FileSizeFollowsChange

C5_Witness ==
    /\ Evaluated("FileSize")
    /\ ~call.self.not
    /\ call.prior # None
    /\ call.self.size_bytes = call.prior
    /\ get_file_size(file) # None
    /\ get_file_size(file) # call.prior
    /\ call.ret = TRUE
    /\ w.size_bytes = call.prior

\* Update or FileSize evaluated with memory present and the file readable.
LaterEvaluation ==
    \/ Evaluated("Update") /\ call.self.last_update # None /\ get_modified_time(file) # None
    \/ Evaluated("FileSize") /\ call.self.size_bytes # None /\ get_file_size(file) # None

Memory(self) == IF self.kind = "Update" THEN self.last_update ELSE self.size_bytes

\* C6 as stated: every evaluation of Update or FileSize after the first
\* leaves the memory equal to the value it read, for both flags.
C6_AsStated == LaterEvaluation => Memory(w) = Observed(call.self, file)

\* C6 (amended): every evaluation after the first compares memory with the
\* value read; it overwrites memory with that value only when it returns
\* false and the condition is a FileSize or a negated Update with a changed
\* modification time, and otherwise leaves memory as it was (an un-negated
\* Update never overwrites it).
C6_MemoryOverwrite ==
    LaterEvaluation =>
        LET curr == Observed(call.self, file)
            overwrites ==
                /\ ~call.ret
                /\ \/ call.self.kind = "FileSize"
                   \/ call.self.not /\ curr # Memory(call.self)
        IN  /\ Memory(w) = IF overwrites THEN curr ELSE Memory(call.self)
            /\ (~call.self.not /\ call.self.kind = "Update") => w = call.self
            /\ call.ret => w = call.self

\* An un-negated condition fired and kept its old baseline.
C6_Witness ==
    /\ LaterEvaluation
    /\ ~call.self.not
    /\ call.ret = TRUE
    /\ Memory(w) = Memory(call.self)
    /\ Memory(w) # Observed(call.self, file)

\* The evaluation could not read what it needs.
Unreadable ==
    \/ Evaluated("Update") /\ get_modified_time(file) = None
    \/ Evaluated("FileSize") /\ get_file_size(file) = None
    \/ /\ Evaluated("UpdateSince")
       /\ \/ get_modified_time(file) = None
          \/ duration_since(now, get_modified_time(file)[1]) = None

\* C7: Update, UpdateSince, FileSize: when the metadata cannot be read (for
\* UpdateSince also when the age cannot be computed) the evaluation returns
\* true whatever `not` and the memory are, and leaves the condition as it was.
C7_UnreadableIsMet == Unreadable => (call.ret = TRUE /\ w = call.self)

C7_Witness ==
    /\ Unreadable
    /\ call.self.not
    /\ call.self.kind = "UpdateSince"
    /\ file # NoFile
    /\ get_modified_time(file) # None
    /\ call.ret = TRUE

\* C8: negation changes only the `not` flag; negating twice gives the
\* original condition back, field for field, and the twice-negated condition
\* evaluates as the original does (same result, same memory update).
C8_DoubleNegation ==
    /\ call.op = "not" => (w.not = ~call.self.not /\ SameBut(call.self, w, {"not"}))
    /\ w # NoWait =>
        /\ Not(Not(w)) = w
        /\ WaitConditionMet(Not(Not(w)), file, now, connectable, http_status)
               = WaitConditionMet(w, file, now, connectable, http_status)

\* A condition with memory, negated for the second time.
C8_Witness ==
    /\ call.op = "not"
    /\ call.self.not
    /\ ~w.not
    /\ call.self.kind = "Update"
    /\ w.last_update # None

C10_AsStated ==
    (Evaluated("Elapsed") /\ ~call.self.not /\ call.self.end_instant > 0) =>
        call.ret = (now >= call.self.end_instant)

\* C10 (amended): an un-negated Elapsed is met iff now is strictly after the
\* target: false at construction, false at the instant equal to the target,
\* true at every later instant.
C10_ElapsedStrict ==
    (Evaluated("Elapsed") /\ ~call.self.not) =>
        /\ call.ret = (now > call.self.end_instant)
        /\ now = 0 => call.ret = FALSE

C10_Witness ==
    /\ Evaluated("Elapsed")
    /\ ~call.self.not
    /\ call.self.end_instant = now
    /\ now > 0
    /\ call.ret = FALSE

\* ---------------------------------------------------- claims on trees
RECURSIVE Subtree(_, _)
Subtree(ws, p) == IF p = << >> THEN ws ELSE Subtree(ws.cc[p[1] + 1], Tail(p))

RECURSIVE Positions(_, _)
Positions(ws, at) ==
    IF ws.tag = "Single" THEN {at}
    ELSE {at} \cup Positions(ws.cc[1], at \o <<0>>) \cup Positions(ws.cc[2], at \o <<1>>)

IsPrefix(p, q) == Len(p) <= Len(q) /\ SubSeq(q, 1, Len(p)) = p

\* Position p lies to the left of position q (neither is above the other).
LeftOf(p, q) ==
    \E k \in 1..Len(p) :
        /\ k <= Len(q)
        /\ SubSeq(p, 1, k - 1) = SubSeq(q, 1, k - 1)
        /\ p[k] = 0
        /\ q[k] = 1

\* The truth value of a tree in the current environment, every leaf taken
\* as it is, with no evaluation order.
RECURSIVE Value(_)
Value(ws) ==
    IF ws.tag = "Single" THEN WaitConditionMet(ws.u, file, now, connectable, http_status).ret
    ELSE IF ws.tag = "Or" THEN Value(ws.cc[1]) \/ Value(ws.cc[2])
    ELSE Value(ws.cc[1]) /\ Value(ws.cc[2])

TreePassed == call.op = "Waits::condition_met"

\* Some leaf at or below position p was evaluated by the latest pass.
Reached(p) == \E i \in 1..Len(call.order) : IsPrefix(p, call.order[i])

ProbeA == From(new_custom("a"))
ProbeB == From(new_custom("b"))

\* C1: one pass evaluates the left child of every node it reaches first, the
\* right child only if the left returned true (AND) or false (OR), and no
\* leaf twice; so a pass of `a OR b` leaves b's counter at 0 and a pass of
\* `b OR a` leaves it at 1.
C1_ShortCircuit ==
    TreePassed =>
        /\ Reached(<< >>)
        /\ \A i \in 1..Len(call.order) :
               /\ call.order[i] \in Positions(call.self, << >>)
               /\ Subtree(call.self, call.order[i]).tag = "Single"
        /\ \A i, j \in 1..Len(call.order) : i < j => LeftOf(call.order[i], call.order[j])
        /\ \A p \in Positions(call.self, << >>) :
               (Subtree(call.self, p).tag # "Single" /\ Reached(p)) =>
                   /\ Reached(p \o <<0>>)
                   /\ Reached(p \o <<1>>) <=>
                          (Value(Subtree(call.self, p \o <<0>>))
                               = (Subtree(call.self, p).tag = "And"))
        /\ call.ret = Value(call.self)
        /\ call.self = BitOr(ProbeA, ProbeB) => counter = call.counter
        /\ call.self = BitOr(ProbeB, ProbeA) => counter = call.counter + 1

\* `a OR b` passed from a counter of 0 and left it at 0.
C1_Witness ==
    /\ TreePassed
    /\ call.self = BitOr(ProbeA, ProbeB)
    /\ call.counter = 0
    /\ call.order = << <<0>> >>
    /\ counter = 0

\* ---------------------------------------------------- claims C11..C20
\* The age UpdateSince computes: now - modification time, when both can be had.
AgeReadable == get_modified_time(file) # None /\ get_modified_time(file)[1] <= now

Age == now - get_modified_time(file)[1]

Polled == call.op = "wait"

\* C12: the loop returns exactly when an evaluation returns true, with no
\* sleep after it and never before one did; after a false evaluation it
\* sleeps max(0, interval - evaluation time) and evaluates again, so never a
\* negative time, and not at all when the evaluation took the interval or more.
C12_PollLoop ==
    /\ poll.pc = "returned" <=> poll.ret = Some(TRUE)
    /\ poll.pc = "returned" => ~ENABLED (WaitPass \/ WaitsPass \/ Sleep)
    /\ (Polled /\ call.ret) => (poll.pc = "returned" /\ now = poll.start + call.took)
    /\ (Polled /\ ~call.ret) =>
        /\ poll.loop_time = call.took
        /\ poll.sleep >= 0
        /\ poll.sleep = IF poll.interval - call.took > 0 THEN poll.interval - call.took ELSE 0
        /\ poll.pc = IF call.took >= poll.interval THEN "loop" ELSE "sleeping"
        /\ now = poll.start + call.took
    /\ call.op = "sleep" =>
        /\ poll.pc = "loop"
        /\ poll.ret = Some(FALSE)
        /\ poll.loop_time < poll.interval
        /\ now = poll.start + poll.interval

\* A false evaluation that took the whole interval: the loop starts over
\* with no sleep.
C12_Witness ==
    /\ Polled
    /\ ~call.ret
    /\ poll.interval > 0
    /\ call.took >= poll.interval
    /\ poll.pc = "loop"
    /\ poll.sleep = 0

\* Whether the subtree at position p of the polled tree was met on the pass
\* (it read the environment at poll.start, the leaves as they were before).
MetOnPass(p) ==
    WaitsConditionMet(Subtree(call.self, p), file, poll.start, connectable, http_status, p).ret

\* The tree is `X OR Elapsed(T)` / `C AND Elapsed(T)`, the Elapsed un-negated.
WithElapsed(ws, tag) ==
    /\ ws.tag = tag
    /\ ws.cc[2].tag = "Single"
    /\ ws.cc[2].u.kind = "Elapsed"
    /\ ~ws.cc[2].u.not

\* C13: a wait on `X OR Elapsed(T)` returns from every evaluation pass that
\* starts after T, whatever X does, so no later than the first such pass.
C13_OrElapsedReturns ==
    (Polled /\ tree # NoTree /\ WithElapsed(call.self, "Or")
        /\ poll.start > call.self.cc[2].u.end_instant) =>
        /\ call.ret
        /\ poll.pc = "returned"

\* X was not met on the pass: the Elapsed alone ended the wait.
C13_Witness ==
    /\ Polled
    /\ tree # NoTree
    /\ WithElapsed(call.self, "Or")
    /\ poll.start > call.self.cc[2].u.end_instant
    /\ Len(call.order) > 1
    /\ poll.pc = "returned"

ExistsAndUpdateSince(ws) ==
    /\ ws.tag = "And"
    /\ ws.cc[1] = From(new_file_exists(Path))
    /\ ws.cc[2].tag = "Single"
    /\ ws.cc[2].u.kind = "UpdateSince"
    /\ ~ws.cc[2].u.not

\* C15: a wait on Exists(f) AND UpdateSince(f, d), f written during the wait
\* (after instant 0), never returns before f has been quiet for d, and
\* returns on the pass that finds it so.
C15_ReturnsAfterQuiescence ==
    (Polled /\ tree # NoTree /\ ExistsAndUpdateSince(call.self) /\ poll.interval > 0
        /\ file.exists
        /\ get_modified_time(file) # None
        /\ get_modified_time(file)[1] > 0
        /\ get_modified_time(file)[1] <= poll.start) =>
        call.ret = (poll.start - get_modified_time(file)[1]
                        >= call.self.cc[2].u.trigger_duration)

\* The leaf at position p is to the right of a node whose left operand
\* decided it: false under an AND, true under an OR.
Skipped(p) ==
    \E k \in 1..Len(p) :
        LET q == SubSeq(p, 1, k - 1) IN
            /\ p[k] = 1
            /\ Value(Subtree(call.self, q \o <<0>>)) = (Subtree(call.self, q).tag = "Or")

StatefulKinds == {"Update", "FileSize"}

\* C20: a pass leaves the tree's shape, every node's operator and every
\* leaf's variant, target and not flag as they were; the only fields it may
\* change are last_update / size_bytes, and only of Update / FileSize leaves
\* that short-circuit did not skip: a skipped leaf is field for field what it
\* was, its memory still absent if it was absent.
C20_PassFrame ==
    TreePassed =>
        /\ Positions(tree, << >>) = Positions(call.self, << >>)
        /\ \A p \in Positions(call.self, << >>) :
               LET before == Subtree(call.self, p)
                   after == Subtree(tree, p)
               IN  /\ after.tag = before.tag
                   /\ before.tag = "Single" =>
                          /\ SameBut(before.u, after.u, {"last_update", "size_bytes"})
                          /\ (Skipped(p) \/ before.u.kind \notin StatefulKinds) =>
                                 after.u = before.u
                          /\ Skipped(p) => ~Reached(p)

\* `Update AND Update` passed on a readable file with both memories absent:
\* the left leaf stored the modification time and returned false, the right
\* leaf was skipped and its memory is still absent.
C20_Witness ==
    /\ TreePassed
    /\ call.self = BitAnd(From(new_file_update(Path)), From(new_file_update(Path)))
    /\ get_modified_time(file) # None
    /\ Skipped(<<1>>)
    /\ tree.cc[1].u.last_update = get_modified_time(file)
    /\ tree.cc[2].u.last_update = None

\* C17: negating an Elapsed condition does nothing: evaluated at any
\* instant, the negated condition returns what the un-negated one returns.
C17_NegatedElapsedSame ==
    (Evaluated("Elapsed") /\ call.self.not) =>
        call.ret = ElapsedMet(Not(call.self), now).ret

\* ------------------------------------------------- negation of a tree
\* `!w` on a Waits, as examples/negation2.rs uses it: the De Morgan rewrite,
\* the leaves negated by impl Not for Wait.
RECURSIVE NotWaits(_)
NotWaits(ws) ==
    IF ws.tag = "Single" THEN From(Not(ws.u))
    ELSE IF ws.tag = "And" THEN BitOr(NotWaits(ws.cc[1]), NotWaits(ws.cc[2]))
    ELSE BitAnd(NotWaits(ws.cc[1]), NotWaits(ws.cc[2]))

NotLeaves ==
    LET fresh == {new_elapsed_from_duration(0, 1), new_file_exists(Path),
                  new_file_update_since(Path, 1), new_file_update(Path),
                  new_file_size(Path), new_custom("a")}
    IN  fresh \cup {Not(u) : u \in fresh}

\* w = A AND B, with A and B leaves or A a pair of probes.
AndTrees ==
    LET one == {From(u) : u \in NotLeaves}
        probe == {From(u) : u \in ProbeLeaves}
    IN  {BitAnd(x, y) : x \in one, y \in one}
            \cup {BitAnd(BitOr(x, y), z) : x \in probe, y \in probe, z \in probe}
            \cup {BitAnd(BitAnd(x, y), z) : x \in probe, y \in probe, z \in probe}

InitNot ==
    /\ now = 0
    /\ w = NoWait
    /\ tree \in AndTrees
    /\ file \in FileStates
    /\ connectable = FALSE
    /\ http_status = Ok200
    /\ counter = 0
    /\ seen = None
    /\ read = None
    /\ call = NoCall
    /\ poll = NoPoll
    /\ text = NoText

\* tree = !tree
NegateTree ==
    /\ tree' = NotWaits(tree)
    /\ call' = [op |-> "Waits::not", self |-> tree]
    /\ UNCHANGED <<w, file, now, connectable, http_status, counter, seen, poll, text, read>>

NextNot == NegateTree \/ TreeConditionMet \/ Tick \/ FsChange

SpecNot == InitNot /\ [][NextNot]_vars

RECURSIVE Leaves(_)
Leaves(ws) == IF ws.tag = "Single" THEN {ws.u} ELSE Leaves(ws.cc[1]) \cup Leaves(ws.cc[2])

\* The latest step was a pass over not(w) for a w = A AND B.
NegationPassed == TreePassed /\ call.self.tag = "Or"

\* What a pass over w returns where the latest pass ran.
PassOf(ws) == WaitsConditionMet(ws, file, now, connectable, http_status, << >>).ret

\* The negation of the leaf is its complement where the leaf is evaluated:
\* it keeps no memory, and an UpdateSince can read the file's age.
PlainNegation(u) ==
    /\ u.kind \notin StatefulKinds
    /\ u.kind = "UpdateSince" => AgeReadable

RECURSIVE Norm(_)
Norm(a) == IF a # << >> /\ a[Len(a)] = 0 THEN Norm(SubSeq(a, 1, Len(a) - 1)) ELSE a

RECURSIVE DecOfNat(_)
DecOfNat(n) == IF n = 0 THEN << >> ELSE <<n % 10>> \o DecOfNat(n \div 10)

DecOfChars(g) == Norm([i \in 1..Len(g) |-> to_digit(g[Len(g) + 1 - i])])

RECURSIVE DecAddCarry(_, _, _)
DecAddCarry(a, b, carry) ==
    IF a = << >> /\ b = << >> THEN DecOfNat(carry)
    ELSE LET x == IF a = << >> THEN 0 ELSE a[1]
             y == IF b = << >> THEN 0 ELSE b[1]
             s == x + y + carry
         IN  <<s % 10>> \o DecAddCarry(IF a = << >> THEN a ELSE Tail(a),
                                       IF b = << >> THEN b ELSE Tail(b), s \div 10)

DecAdd(a, b) == Norm(DecAddCarry(a, b, 0))

RECURSIVE DecMulCarry(_, _, _)
DecMulCarry(a, k, carry) ==
    IF a = << >> THEN DecOfNat(carry)
    ELSE <<(a[1] * k + carry) % 10>> \o DecMulCarry(Tail(a), k, (a[1] * k + carry) \div 10)

DecMul(a, k) == Norm(DecMulCarry(a, k, 0))

DecLeq(a, b) ==
    \/ Len(a) < Len(b)
    \/ /\ Len(a) = Len(b)
       /\ \/ a = b
          \/ \E i \in 1..Len(a) : a[i] < b[i] /\ \A j \in (i + 1)..Len(a) : a[j] = b[j]

\* The seconds a returned Duration holds.
Seconds(secs) == DecAdd(DecMul(DecOfNat(secs[1]), 65536), DecOfNat(secs[2]))

UnitLetters == {"d", "h", "m", "s"}

UnitSeconds(c) == CASE c = "d" -> 86400 [] c = "h" -> 3600 [] c = "m" -> 60 [] c = "s" -> 1

\* The position of the last unit letter before position i, 0 if none.
PrevUnit(s, i) ==
    LET before == {j \in 1..(i - 1) : s[j] \in UnitLetters} IN
        IF before = {} THEN 0 ELSE CHOOSE j \in before : \A k \in before : k <= j

\* The sum, over the unit letters up to position i, of the number written
\* before the letter times the letter's seconds.
RECURSIVE GroupsUpTo(_, _)
GroupsUpTo(s, i) ==
    IF i = 0 THEN << >>
    ELSE DecAdd(GroupsUpTo(s, PrevUnit(s, i)),
                DecMul(DecOfChars(SubSeq(s, PrevUnit(s, i) + 1, i - 1)), UnitSeconds(s[i])))

\* The seconds a string of digits and unit letters stands for.
Stated(s) ==
    LET last == PrevUnit(s, Len(s) + 1) IN
        DecAdd(GroupsUpTo(s, last), DecOfChars(SubSeq(s, last + 1, Len(s))))

DigitsAndUnits(s) == \A i \in 1..Len(s) : IsDigit(s[i]) \/ s[i] \in UnitLetters

\* C18: parse_duration returns a Duration for every string of digits and
\* unit letters, of the seconds the string stands for ("3h10m": 11400,
\* "10": 10, "": 0), and returns None for every other string.
C18_ParsesEveryDuration ==
    call.op = "parse_duration" =>
        /\ ~call.panicked
        /\ DigitsAndUnits(text) =>
               /\ call.ret[1] # None
               /\ Seconds(call.ret[1][1]) = Stated(text)
        /\ ~DigitsAndUnits(text) => call.ret = Some(None)
        /\ text = <<"3", "h", "1", "0", "m">> => Stated(text) = DecOfNat(11400)
        /\ text = <<"1", "0">> => Stated(text) = DecOfNat(10)
        /\ text = << >> => Stated(text) = DecOfNat(0)

HasColon(s) == \E i \in 1..Len(s) : s[i] = ":"

\* What follows the last colon of a string that has one.
AfterLastColon(s) ==
    LET k == CHOOSE i \in 1..Len(s) :
                 s[i] = ":" /\ \A j \in (i + 1)..Len(s) : s[j] # ":"
    IN  SubSeq(s, k + 1, Len(s))

\* A decimal numeral, with or without a leading '+', of a value up to 65535.
IsU16Numeral(s) ==
    LET d == IF s # << >> /\ s[1] = "+" THEN Tail(s) ELSE s IN
        /\ d # << >>
        /\ \A i \in 1..Len(d) : IsDigit(d[i])
        /\ DecLeq(DecOfChars(d), DecOfNat(65535))

Loopback(port) == <<"1", "2", "7", ".", "0", ".", "0", ".", "1">> \o <<":">> \o port

\* C19: validate_tcp returns true iff the string has a colon and what
\* follows its last colon is a u16 numeral: port 65535 is accepted, 65536 and
\* -1 are refused, and so is a string with no colon.
C19_ValidateTcp ==
    call.op = "validate_tcp" =>
        /\ call.ret = (HasColon(text) /\ IsU16Numeral(AfterLastColon(text)))
        /\ text = Loopback(<<"6", "5", "5", "3", "5">>) => call.ret
        /\ text = Loopback(<<"6", "5", "5", "3", "6">>) => ~call.ret
        /\ text = Loopback(<<"-", "1">>) => ~call.ret
        /\ ~HasColon(text) => ~call.ret

\* "127.0.0.1:65535" was validated and accepted.
C19_Witness ==
    /\ call.op = "validate_tcp"
    /\ text = Loopback(<<"6", "5", "5", "3", "5">>)
    /\ call.ret

\* ---------------------------------------------------- claims C21..C23
\* A negated Update or FileSize was evaluated and could read the file.
NegatedRead ==
    /\ \/ Evaluated("Update")
       \/ Evaluated("FileSize")
    /\ call.self.not
    /\ Observed(call.self, file) # None

\* C21: after an evaluation of a negated Update / FileSize that read the
\* file, the memory is the value it read; its memory before was the value
\* read by the latest earlier evaluation that could read the file (flag not
\* toggled since), and it returns true exactly when the value read now equals
\* that one; with no such earlier evaluation and no memory it returns false.
C21_NegatedMemoryIsLastRead ==
    NegatedRead =>
        /\ Memory(w) = Observed(call.self, file)
        /\ call.read # None =>
               /\ Memory(call.self) = call.read
               /\ call.ret = (Observed(call.self, file) = call.read)
        /\ (call.read = None /\ Memory(call.self) = None) => ~call.ret

\* A negated Update / FileSize returned true on the value it had read two
\* evaluations before, the evaluation in between having found the file
\* unreadable.
C21_Witness ==
    /\ NegatedRead
    /\ call.prior = None
    /\ call.read # None
    /\ call.read = Observed(call.self, file)
    /\ call.ret

\* The latest pass of wait(interval) on a bare Update / FileSize, fresh when
\* the wait began, could read the file.
StatefulPassRead ==
    /\ Polled
    /\ w # NoWait
    /\ call.self.kind \in StatefulKinds
    /\ Observed(call.self, file) # None

\* C22 as stated: the first evaluation never returns, and a return comes
\* only after the loop has slept.
C22_AsStated ==
    StatefulPassRead =>
        /\ Memory(call.self) = None => ~call.ret
        /\ call.ret => (Memory(call.self) # None /\ poll.slept)

\* C22: the first evaluation (memory absent, file readable) stores the value
\* and returns false for either flag, so a return comes from a second or
\* later evaluation, which starts no earlier than one interval after the
\* wait began; the loop has slept before it unless the evaluation before it
\* took the interval or more (an interval of zero included).
C22_FirstPassNeverReturns ==
    StatefulPassRead =>
        /\ Memory(call.self) = None =>
               /\ ~call.ret
               /\ poll.pc # "returned"
               /\ Memory(w) = Observed(call.self, file)
        /\ call.ret =>
               /\ Memory(call.self) # None
               /\ poll.start >= poll.interval
               /\ poll.slept \/ poll.loop_time >= poll.interval

\* A wait with a positive interval returned from the evaluation that
\* followed its first sleep.
C22_Witness ==
    /\ StatefulPassRead
    /\ call.ret
    /\ poll.interval > 0
    /\ poll.slept
    /\ poll.start = poll.interval

\* ------------------------------- SpecElapsed: an Elapsed, evaluated and waited on
\* No evaluation or wait of w is running.
Idle == poll.pc \in {"none", "returned"}

InitElapsed ==
    /\ now = 0
    /\ w \in ElapsedLeaves \cup {Not(u) : u \in ElapsedLeaves}
    /\ tree = NoTree
    /\ file = NoFile
    /\ connectable = FALSE
    /\ http_status = Ok200
    /\ counter = 0
    /\ seen = None
    /\ read = None
    /\ call = NoCall
    /\ poll = NoPoll
    /\ text = NoText

\* w.condition_met(), called by the program itself
Evaluate == Idle /\ ConditionMet

\* Time passes between two calls.
Pass == Idle /\ Tick

\* w.wait(interval) is entered.
BeginWait ==
    /\ Idle
    /\ \E interval \in Intervals :
           poll' = [pc |-> "loop", interval |-> interval, start |-> now, loop_time |-> 0,
                    sleep |-> 0, ret |-> None, slept |-> FALSE]
    /\ call' = [op |-> "begin", self |-> w, at |-> now]
    /\ UNCHANGED <<w, tree, file, now, connectable, http_status, counter, seen, text, read>>

NextElapsed == Evaluate \/ Pass \/ BeginWait \/ WaitPass \/ Sleep

SpecElapsed == InitElapsed /\ [][NextElapsed]_vars

\* The instant the latest evaluation read.
ReadAt == IF Polled THEN poll.start ELSE now

ElapsedEvaluated == (Polled \/ call.op = "condition_met") /\ call.self.kind = "Elapsed"

====
